---- MODULE Spec2Model ----
(***************************************************************************)
(* Model of pdf_translator (human-research/meeseeks_box).                  *)
(*                                                                         *)
(* Python values are represented as follows: a str is a sequence of        *)
(* one-character strings, a tuple is a TLA+ sequence, a list is the record *)
(* [list |-> <<...>>], a dict is a function (the translation cache) or a   *)
(* sequence of <<key, value>> items in insertion order (paragraphs by      *)
(* page); the numbers of a bbox are PyInt and PyFloat records.             *)
(***************************************************************************)
EXTENDS Integers, Sequences, FiniteSets, TLC

VARIABLES
    cache_file,         \* contents of translation_cache.json
    paragraphs_files,   \* contents of <hash>_paragraphs.json, per document hash
    pc,                 \* position of the running process
    runs,               \* number of invocations of main started so far
    args,               \* parsed command line of the running invocation
    translation_cache,  \* main: the in-memory cache
    is_image_pdf,       \* main: result of is_image_based_pdf
    paragraphs_by_page, \* main: extracted or loaded paragraphs
    pos,                \* main: <<page item, paragraph>> the translate loop is at
    call,               \* translate_text: frame of the running or last call
    hist,               \* summary of the translate_text calls of this invocation
    out,                \* what the invocation did that is visible from outside
    saved,              \* per document, the paragraphs last written to its store
    pdf,                \* per page of the opened document, its blocks
    render              \* frame of the renderer: its arguments, its loop
                        \* positions, the output document and the open ones

vars == <<cache_file, paragraphs_files, pc, runs, args, translation_cache,
          is_image_pdf, paragraphs_by_page, pos, call, hist, out, saved, pdf, render>>

(***************************************************************************)
(* Bounds of the model.                                                    *)
(***************************************************************************)
MaxRuns == 2
MaxStorePages == 11
MaxDocPages == 6

(***************************************************************************)
(* Strings.                                                                *)
(***************************************************************************)
\* the characters of the texts of documents
Alphabet == <<" ", "a", "b", "=">>

CharCode(c) == CHOOSE i \in 1..Len(Alphabet) : Alphabet[i] = c

\* str.strip(): drop the whitespace at both ends
RECURSIVE LStrip(_)
LStrip(s) == IF s # <<>> /\ Head(s) = " " THEN LStrip(Tail(s)) ELSE s

RECURSIVE RStrip(_)
RStrip(s) ==
    IF s # <<>> /\ s[Len(s)] = " " THEN RStrip(SubSeq(s, 1, Len(s) - 1)) ELSE s

Strip(s) == RStrip(LStrip(s))

\* str.split(): the words between runs of whitespace
RECURSIVE Split(_)
Split(s) ==
    LET t == LStrip(s)
        n == IF \E i \in 1..Len(t) : t[i] = " "
             THEN (CHOOSE i \in 1..Len(t) : t[i] = " " /\ \A j \in 1..(i - 1) : t[j] # " ") - 1
             ELSE Len(t)
    IN IF t = <<>> THEN <<>>
       ELSE <<SubSeq(t, 1, n)>> \o Split(SubSeq(t, n + 1, Len(t)))

\* ' '.join(words)
RECURSIVE Join(_)
Join(words) ==
    IF words = <<>> THEN <<>>
    ELSE IF Len(words) = 1 THEN words[1]
    ELSE words[1] \o <<" ">> \o Join(Tail(words))

\* the texts of paragraphs: "aaaa bbbb aaa" and "aaaa bbbb aab" differ in
\* one character
T1 == <<"a", "a", "a", "a", " ", "b", "b", "b", "b", " ", "a", "a", "a">>
T2 == <<"a", "a", "a", "a", " ", "b", "b", "b", "b", " ", "a", "a", "b">>
Texts == {T1, T2}

\* texts of blocks that are not paragraphs: "a = b = aaa" and "aaaaa=bbbb=a"
\* are formulas, "aaaa bbbb" is short, "  " is blank
TFormula == <<"a", " ", "=", " ", "b", " ", "=", " ", "a", "a", "a">>
TFormulaWord == <<"a", "a", "a", "a", "a", "=", "b", "b", "b", "b", "=", "a">>
TShort == <<"a", "a", "a", "a", " ", "b", "b", "b", "b">>
TBlank == <<" ", " ">>

\* "aaaa=bbbb aaaa bbbb aaaa" has a math symbol and is not a formula
TSymbol == <<"a", "a", "a", "a", "=", "b", "b", "b", "b", " ", "a", "a", "a", "a", " ", "b", "b", "b", "b", " ", "a", "a", "a", "a">>

\* the message contents the translation endpoint can answer with
RawContents == { <<"x">>, <<" ", "y", " ">> }

(***************************************************************************)
(* utils.py                                                                *)
(***************************************************************************)
\* get_text_md5 keyed on less than the whole text: the last character is
\* left out of the digest
RECURSIVE get_text_md5_prefix(_)
get_text_md5_prefix(text) ==
    IF Len(text) <= 1 THEN 0
    ELSE get_text_md5_prefix(SubSeq(text, 1, Len(text) - 1)) * (Len(Alphabet) + 1)
            + CharCode(text[Len(text) - 1])

\* get_text_md5: a digest of the whole text.  MD5 is modelled as a
\* collision-free digest: the number whose digits in base Len(Alphabet) + 1
\* are the character codes of the text.
RECURSIVE get_text_md5(_)
get_text_md5(text) ==
    IF text = <<>> THEN 0
    ELSE get_text_md5(SubSeq(text, 1, Len(text) - 1)) * (Len(Alphabet) + 1)
            + CharCode(text[Len(text)])

\* the documents, named by get_file_md5 of their bytes
Docs == {"d1", "d2"}

EmptyCache == <<>>

\* `file_md5 in cache and text_md5 in cache[file_md5]`
CacheHas(cache, file_md5, text_md5) ==
    file_md5 \in DOMAIN cache /\ text_md5 \in DOMAIN cache[file_md5]

\* `cache[file_md5] = {}` without the test that the document is new
CachePut_reset(cache, file_md5, text_md5, value) ==
    (file_md5 :> (text_md5 :> value)) @@ cache

\* `if file_md5 not in cache: cache[file_md5] = {}` followed by
\* `cache[file_md5][text_md5] = value`
CachePut(cache, file_md5, text_md5, value) ==
    IF file_md5 \in DOMAIN cache
    THEN [cache EXCEPT ![file_md5] = (text_md5 :> value) @@ cache[file_md5]]
    ELSE (file_md5 :> (text_md5 :> value)) @@ cache

\* the states of translation_cache.json: missing, a complete JSON text of a
\* cache, or a truncated / partly written text
NoFile == [exists |-> FALSE, complete |-> FALSE, data |-> EmptyCache]
CompleteFile(cache) == [exists |-> TRUE, complete |-> TRUE, data |-> cache]
PartialFile == [exists |-> TRUE, complete |-> FALSE, data |-> EmptyCache]

\* load_translation_cache: the parsed file, {} when the file is missing or
\* json.load raises (a text cut short is not a JSON text)
load_translation_cache(file) ==
    IF file.exists /\ file.complete THEN file.data ELSE EmptyCache

\* save_translation_cache, whole: open(cache_file, 'w') and json.dump
save_translation_cache(cache) == CompleteFile(cache)

\* every entry of cache `c` is in cache `e` with the same value
Preserved(c, e) ==
    \A d \in DOMAIN c : \A h \in DOMAIN c[d] : CacheHas(e, d, h) /\ e[d][h] = c[d][h]

(***************************************************************************)
(* The paragraph store: main.py writes <hash>_paragraphs.json in the       *)
(* `translate` command and reads it in the `regenerate` command.           *)
(* A JSON text is represented by its value: an object is a sequence of     *)
(* <<key characters, value>> members in textual order, an array is         *)
(* [array |-> <<...>>], a string is [string |-> characters] and a number   *)
(* is [number |-> characters of its literal].                              *)
(***************************************************************************)
DigitChars == <<"0", "1", "2", "3", "4", "5", "6", "7", "8", "9">>

DigitValue(c) == (CHOOSE i \in 1..10 : DigitChars[i] = c) - 1

\* str(n) of an int n >= 0
RECURSIVE IntToStr(_)
IntToStr(n) ==
    IF n < 10 THEN <<DigitChars[n + 1]>>
    ELSE Append(IntToStr(n \div 10), DigitChars[(n % 10) + 1])

\* int(s) of a string of decimal digits
RECURSIVE StrToInt(_)
StrToInt(s) ==
    IF s = <<>> THEN 0
    ELSE StrToInt(SubSeq(s, 1, Len(s) - 1)) * 10 + DigitValue(s[Len(s)])

\* Python numbers: PyInt(n) is the int n, PyFloat(n, f) the float whose
\* repr is n, a point and the digits f
PyInt(n) == [t |-> "int", ip |-> n, fp |-> <<>>]
PyFloat(n, f) == [t |-> "float", ip |-> n, fp |-> f]

\* a bbox written with its numbers cut to whole numbers
NumberLiteral_truncated(x) == IntToStr(x.ip)

\* the literal json.dump writes for a number: str(n) of an int, repr(x) of a
\* float (integer part, a point, fraction digits)
NumberLiteral(x) ==
    IF x.t = "int" THEN IntToStr(x.ip)
    ELSE IntToStr(x.ip) \o <<".">> \o [i \in 1..Len(x.fp) |-> DigitChars[x.fp[i] + 1]]

PointAt(s) == CHOOSE i \in 1..Len(s) : s[i] = "."

\* the number json.load reads from a literal: a float when the literal has
\* a fraction part, an int otherwise
ParseNumber(s) ==
    IF \E i \in 1..Len(s) : s[i] = "."
    THEN PyFloat(StrToInt(SubSeq(s, 1, PointAt(s) - 1)),
                 [i \in 1..(Len(s) - PointAt(s)) |-> DigitValue(s[PointAt(s) + i])])
    ELSE PyInt(StrToInt(s))

\* json.dump of list(bbox)
DumpBbox(bbox) == [array |-> [i \in 1..Len(bbox) |-> [number |-> NumberLiteral(bbox[i])]]]

\* json.dump of the tuple (text, list(bbox))
DumpParagraph(p) == [array |-> << [string |-> p[1]], DumpBbox(p[2]) >>]

\* main.py lines 69-77: serializable_data[str(page_num)] = [(text, list(bbox)), ...]
\* for every item of paragraphs_by_page, then json.dump
SaveParagraphs(by_page) ==
    [i \in 1..Len(by_page) |->
        << IntToStr(by_page[i][1]),
           [array |-> [j \in 1..Len(by_page[i][2].list) |->
                          DumpParagraph(by_page[i][2].list[j])]] >>]

\* json.load of an array of numbers: a list of numbers
LoadBbox(a) == [list |-> [i \in 1..Len(a.array) |-> ParseNumber(a.array[i].number)]]

\* `(text, tuple(bbox)) for text, bbox in paragraphs`: each loaded paragraph
\* is a two-element list, unpacked, and its bbox list made a tuple again
LoadParagraph(a) == << a.array[1].string, LoadBbox(a.array[2]).list >>

\* main.py lines 109-116: json.load, then
\* paragraphs_by_page[int(page_num_str)] = [(text, tuple(bbox)), ...]
LoadParagraphs(json) ==
    [i \in 1..Len(json) |->
        << StrToInt(json[i][1]),
           [list |-> [j \in 1..Len(json[i][2].array) |->
                         LoadParagraph(json[i][2].array[j])]] >>]

(***************************************************************************)
(* Python floats.                                                          *)
(***************************************************************************)
\* A Python float (IEEE 754 binary64) >= 0 is the value m * 2^(e - 52): m is
\* the significand of MantissaBits bits, held in three limbs of 18 bits,
\* most significant first, and FloatZero is 0.0
MantissaBits == 53
Limb == 2^((MantissaBits + 1) \div 3)
FloatZero == [m |-> <<0, 0, 0>>, e |-> 0]

\* three digits with their carries taken: the digits below the first are
\* brought back under the base
Carry(d) ==
    LET b == d[2] + d[3] \div Limb
    IN <<d[1] + b \div Limb, b % Limb, d[3] % Limb>>

\* long division of the number of digits d, times mul, by n: its quotient
\* and whether it left a remainder
Quot(d, mul, n) ==
    LET t1 == d[1] * mul
        t2 == (t1 % n) * Limb + d[2] * mul
        t3 == (t2 % n) * Limb + d[3] * mul
    IN [q |-> Carry(<<t1 \div n, t2 \div n, t3 \div n>>), inexact |-> t3 % n # 0]

\* q has exactly MantissaBits + 1 bits: a significand and its guard bit
HasGuardBit(q) == q[1] >= Limb \div 2 /\ q[1] < Limb

\* round to nearest, ties to even: q is the significand followed by the guard
\* bit of a value that, when inexact, has something non-zero below them
Round(q, inexact, e) ==
    LET half == <<q[1] \div 2, (q[1] % 2) * (Limb \div 2) + q[2] \div 2,
                  (q[2] % 2) * (Limb \div 2) + q[3] \div 2>>
        up == q[3] % 2 = 1 /\ (inexact \/ half[3] % 2 = 1)
        m == IF up THEN Carry(<<half[1], half[2], half[3] + 1>>) ELSE half
    IN IF m[1] = Limb \div 2 THEN [m |-> <<Limb \div 4, 0, 0>>, e |-> e + 1]
       ELSE [m |-> m, e |-> e]

\* a / b of two ints, 0 <= a <= b and b >= 1
IntDiv(a, b) ==
    IF a = 0 THEN FloatZero
    ELSE LET k == CHOOSE j \in 17..22 : HasGuardBit(Quot(<<a * 2^j, 0, 0>>, 1, b).q)
             r == Quot(<<a * 2^k, 0, 0>>, 1, b)
         IN Round(r.q, r.inexact, 17 - k)

\* x / n of a float x >= 0 and an int n in 1..7
FloatDivInt(x, n) ==
    IF x = FloatZero THEN FloatZero
    ELSE LET k == CHOOSE j \in 1..4 : HasGuardBit(Quot(x.m, 2^j, n).q)
             r == Quot(x.m, 2^k, n)
         IN Round(r.q, r.inexact, x.e - k + 1)

\* x + y of two floats >= 0
FloatAdd(x, y) ==
    IF x = FloatZero THEN y
    ELSE IF y = FloatZero THEN x
    ELSE LET hi == IF x.e >= y.e THEN x ELSE y
             lo == IF x.e >= y.e THEN y ELSE x
             shift == 2^(hi.e - lo.e)
             sum == <<hi.m[1] * shift + lo.m[1], hi.m[2] * shift + lo.m[2],
                      hi.m[3] * shift + lo.m[3]>>
             k == CHOOSE j \in {0, 1} : HasGuardBit(Quot(sum, 2, shift * 2^j).q)
             r == Quot(sum, 2, shift * 2^k)
         IN Round(r.q, r.inexact, hi.e + k)

\* x < y of two floats >= 0
FloatLess(x, y) ==
    /\ y # FloatZero
    /\ \/ x = FloatZero
       \/ x.e < y.e
       \/ /\ x.e = y.e
          /\ \E i \in 1..3 : /\ x.m[i] < y.m[i]
                             /\ \A j \in 1..(i - 1) : x.m[j] = y.m[j]

Min(a, b) == IF a <= b THEN a ELSE b

(***************************************************************************)
(* text_utils.py                                                           *)
(***************************************************************************)
\* the formula indicators that are ASCII; the others ('∫', '∑', ...) are
\* not characters of the texts of the model
formula_indicators == {"=", "+", "-", "*", "/", "^"}

\* is_formula without its second test, the share of math symbols
is_formula_few_words(text) ==
    LET math_symbols_count ==
            Cardinality({i \in 1..Len(text) : text[i] \in formula_indicators})
        words == Len(Split(text))
    IN math_symbols_count > 1 /\ words < 5

\* is_formula of a non-empty text: the literal 0.05 is the float nearest to
\* 1/20 and math_symbols_count / len(text) is a float division
is_formula(text) ==
    LET math_symbols_count ==
            Cardinality({i \in 1..Len(text) : text[i] \in formula_indicators})
        words == Len(Split(text))
    IN \/ math_symbols_count > 1 /\ words < 5
       \/ FloatLess(IntDiv(1, 20), IntDiv(math_symbols_count, Len(text)))

\* extract_paragraphs lines 38-52, the blocks of one page:
\* chardet.detect accepts bytes only and raises for a str, so the `except`
\* branch appends every text block that reached detect, that is, with more
\* than 10 characters after strip() and not a formula
ExtractBlocks(blocks) ==
    LET kept == SelectSeq(blocks, LAMBDA block :
                    /\ block.type = 0
                    /\ Strip(block.text) # <<>>
                    /\ Len(Strip(block.text)) > 10
                    /\ ~is_formula(block.text))
    IN [i \in 1..Len(kept) |-> <<kept[i].text, kept[i].bbox>>]

(***************************************************************************)
(* ocr.py: extract_text_with_ocr                                           *)
(***************************************************************************)
Max(a, b) == IF a >= b THEN a ELSE b

\* lines 85-92: the bbox of a paragraph grown by one OCR word
ExpandBbox(current_bbox, word) ==
    IF current_bbox = <<>>
    THEN <<word.left, word.top, word.left + word.width, word.top + word.height>>
    ELSE <<Min(current_bbox[1], word.left), Min(current_bbox[2], word.top),
           Max(current_bbox[3], word.left + word.width),
           Max(current_bbox[4], word.top + word.height)>>

\* lines 97-107 and 114-121: the paragraph that ends is appended when it has
\* more than 10 characters after strip() and is not a formula (detect
\* raises, and the `except` branch appends it)
ClosedParagraph(paragraphs, current_paragraph, current_bbox) ==
    LET paragraph_text == Join(current_paragraph) IN
    IF Len(Strip(paragraph_text)) > 10 /\ ~is_formula(paragraph_text)
    THEN Append(paragraphs, <<paragraph_text,
                              [i \in 1..4 |-> PyInt(current_bbox[i])]>>)
    ELSE paragraphs

\* lines 77-121: the OCR words of one page image, from word i on, grouped
\* into paragraphs at the entries whose text is blank
RECURSIVE OcrParagraphs(_, _, _, _, _)
OcrParagraphs(ocr_data, i, current_paragraph, current_bbox, paragraphs) ==
    IF i > Len(ocr_data)
    THEN IF current_paragraph # <<>>
         THEN ClosedParagraph(paragraphs, current_paragraph, current_bbox)
         ELSE paragraphs
    ELSE IF Strip(ocr_data[i].text) # <<>>
         THEN OcrParagraphs(ocr_data, i + 1, Append(current_paragraph, ocr_data[i].text),
                            ExpandBbox(current_bbox, ocr_data[i]), paragraphs)
         ELSE IF current_paragraph # <<>>
              THEN OcrParagraphs(ocr_data, i + 1, <<>>, <<>>,
                                 ClosedParagraph(paragraphs, current_paragraph,
                                                 current_bbox))
              ELSE OcrParagraphs(ocr_data, i + 1, current_paragraph, current_bbox,
                                 paragraphs)

(***************************************************************************)
(* The documents.                                                          *)
(***************************************************************************)
\* per page of a document, what the PDF parser reports: the number of text
\* blocks and of images
Blocks(t, m) == [text_blocks |-> t, image_blocks |-> m]

\* an item of page.get_text("blocks"): block[6] is its type (0 for text),
\* block[4] its text and block[0..3] its bbox, a tuple of floats
TextBlock(text, bbox) == [type |-> 0, text |-> text, bbox |-> bbox]
ImageBlock(bbox) == [type |-> 1, text |-> <<>>, bbox |-> bbox]

\* an item of pytesseract.image_to_data: a word and its box, in ints
OcrWord(text, left, top, width, height) ==
    [text |-> text, left |-> left, top |-> top, width |-> width, height |-> height]

\* a page: its blocks, the number of its images, and the OCR words of its
\* image
Page(blocks, images, ocr_data) ==
    [text_blocks |-> Cardinality({i \in 1..Len(blocks) : blocks[i].type = 0}),
     image_blocks |-> images, blocks |-> blocks, ocr_data |-> ocr_data]

\* d1 is a text document of three pages, the same paragraph on two of them,
\* in a box of 44 by 15.5 points and in one of 24 by 12 points, and a
\* formula below the first; d2 is a scan of one page with two paragraphs and
\* a formula
DocPages(d) ==
    IF d = "d1"
    THEN << Page(<< TextBlock(T1, <<PyFloat(72, <<0>>), PyFloat(90, <<5>>),
                                    PyFloat(116, <<0>>), PyFloat(106, <<0>>)>>),
                    TextBlock(TFormula, <<PyFloat(72, <<0>>), PyFloat(130, <<0>>),
                                          PyFloat(300, <<0>>), PyFloat(150, <<0>>)>>) >>,
                 0, <<>>),
            Page(<<>>, 0, <<>>),
            Page(<< TextBlock(T1, <<PyFloat(72, <<2, 5>>), PyFloat(10, <<0>>),
                                    PyFloat(96, <<2, 5>>), PyFloat(22, <<0>>)>>),
                    ImageBlock(<<PyFloat(72, <<0>>), PyFloat(50, <<0>>),
                                 PyFloat(300, <<0>>), PyFloat(200, <<0>>)>>) >>,
                 1, <<>>) >>
    ELSE << Page(<< TextBlock(TShort, <<PyFloat(10, <<0>>), PyFloat(5, <<0>>),
                                        PyFloat(60, <<0>>), PyFloat(15, <<0>>)>>) >>,
                 3,
                 << OcrWord(<<"a", "a", "a", "a">>, 10, 20, 30, 20),
                    OcrWord(<<"b", "b", "b", "b">>, 45, 20, 30, 20),
                    OcrWord(<<"a", "a", "a">>, 80, 20, 30, 20),
                    OcrWord(<<>>, 0, 0, 0, 0),
                    OcrWord(<<"a", "a", "a", "a">>, 10, 50, 30, 20),
                    OcrWord(<<"b", "b", "b", "b">>, 45, 50, 30, 20),
                    OcrWord(<<"a", "a", "b">>, 80, 50, 30, 20),
                    OcrWord(<<" ">>, 0, 0, 0, 0),
                    OcrWord(<<"a">>, 10, 80, 10, 20),
                    OcrWord(<<"=">>, 25, 80, 10, 20),
                    OcrWord(<<"b">>, 40, 80, 10, 20),
                    OcrWord(<<"=">>, 55, 80, 10, 20),
                    OcrWord(<<"a", "a", "a">>, 70, 80, 30, 20) >>) >>

\* extract_paragraphs as main calls it (debug_mode False): one entry per
\* page, in page order; the bbox of a text block is a tuple of floats
extract_paragraphs(d) ==
    [i \in 1..Len(DocPages(d)) |->
        <<i - 1, [list |-> ExtractBlocks(DocPages(d)[i].blocks)]>>]

\* extract_text_with_ocr as main calls it (debug_mode False): one entry per
\* page image, in page order; the bbox of an OCR paragraph is a tuple of ints
extract_text_with_ocr(d) ==
    [i \in 1..Len(DocPages(d)) |->
        <<i - 1, [list |-> OcrParagraphs(DocPages(d)[i].ocr_data, 1, <<>>, <<>>, <<>>)]>>]

(***************************************************************************)
(* ocr.py: is_image_based_pdf                                              *)
(***************************************************************************)
\* lines 27-40, the loop of is_image_based_pdf after its first k pages: text_content_ratio
RECURSIVE text_content_ratio(_, _)
text_content_ratio(pages, k) ==
    IF k = 0 THEN FloatZero
    ELSE IF pages[k].text_blocks + pages[k].image_blocks > 0
         THEN FloatAdd(text_content_ratio(pages, k - 1),
                       IntDiv(pages[k].text_blocks,
                              pages[k].text_blocks + pages[k].image_blocks))
         ELSE text_content_ratio(pages, k - 1)

\* the default of the parameter: the literal 0.3 is the float nearest to 3/10
threshold == IntDiv(3, 10)

\* lines 24-47: dividing by min(total_pages, 5) = 0 raises ZeroDivisionError
is_image_based_pdf(pages) ==
    LET sampled == Min(Len(pages), 5)
    IN IF sampled = 0 THEN [raised |-> TRUE, ret |-> FALSE]
       ELSE [raised |-> FALSE,
             ret |-> FloatLess(FloatDivInt(text_content_ratio(pages, sampled), sampled),
                               threshold)]

(***************************************************************************)
(* translate.py: translate_text                                            *)
(***************************************************************************)
max_retries == 3
retry_delay_initial == 2

\* the frame of a call of translate_text(text, file_md5, cache, ignore_cache):
\* its locals, and what it has done so far (requests issued, delays slept,
\* outcome of each request)
NoCall ==
    [text |-> <<>>, text_md5 |-> 0, attempt |-> 0, retry_delay |-> 0,
     requests |-> 0, sleeps |-> <<>>, outcomes |-> <<>>, raw |-> <<>>,
     result |-> "none", ret |-> <<>>, changed |-> FALSE]

EnterCall(text) ==
    [NoCall EXCEPT !.text = text, !.text_md5 = get_text_md5(text),
                   !.result = "running"]

\* the cache lookup with the bypass flag read the wrong way round
CacheHit_inverted(cache, file_md5, text_md5, ignore_cache) ==
    ignore_cache /\ CacheHas(cache, file_md5, text_md5)

\* lines 20-22: the cache lookup
CacheHit(cache, file_md5, text_md5, ignore_cache) ==
    ~ignore_cache /\ CacheHas(cache, file_md5, text_md5)

\* requests.post is about to be called
Requesting(c) ==
    [c EXCEPT !.requests = @ + 1]

\* `return value` with the given result kind
Return(c, kind, value, changed) ==
    [c EXCEPT !.result = kind, !.ret = value, !.changed = changed]

\* lines 78-92: after a failed attempt, sleep and double the delay when
\* attempts are left, return the original text otherwise
AfterFailure(c, outcome) ==
    LET c1 == [c EXCEPT !.outcomes = Append(@, outcome)] IN
    IF c1.attempt < max_retries - 1
    THEN [c1 EXCEPT !.sleeps = Append(@, c1.retry_delay),
                    !.retry_delay = @ * 2,
                    !.attempt = @ + 1]
    ELSE Return(c1, "exhausted", c1.text, FALSE)

\* a try block around requests.post alone
InTry_post_only(outcome) == outcome = "transport"

\* lines 53-86: the try block spans requests.post, response.json() and the
\* lookup of the translation in the body, so what any of them raises is
\* handled by `except Exception`
InTry(outcome) == outcome \in {"transport", "unparsable"}

\* a success that is returned without being added to the cache
StoreTranslation_skipped(cache, file_md5, text_md5, translated) == cache

\* lines 72-75: "add to cache"
StoreTranslation(cache, file_md5, text_md5, translated) ==
    CachePut(cache, file_md5, text_md5, translated)

\* the summary of a finished call kept for the rest of the invocation
Summary(c) ==
    [text |-> c.text, result |-> c.result, requests |-> c.requests, ret |-> c.ret,
     changed |-> c.changed]

(***************************************************************************)
(* main.py                                                                 *)
(***************************************************************************)
\* --end-page not given: args.end_page is None and DEBUG_END_PAGE is never
\* assigned
NoEndPage == -1

\* the debug flags an invocation is started with
DebugArgs ==
    { [debug |-> FALSE, start_page |-> 0, end_page |-> NoEndPage],
      [debug |-> TRUE, start_page |-> 1, end_page |-> 2],
      [debug |-> TRUE, start_page |-> 1, end_page |-> NoEndPage] }

NoArgs ==
    [command |-> "none", input_pdf |-> "none", ignore_cache |-> FALSE,
     debug |-> FALSE, start_page |-> 0, end_page |-> NoEndPage]

\* f"{file_md5}_paragraphs.json"
ParagraphsFileName(file_md5) == <<file_md5, "_paragraphs.json">>

NoParagraphsFile == [exists |-> FALSE, json |-> <<>>]

\* what an invocation has done that is visible from outside: the error it
\* printed, the extraction and the renderer it called, whether it wrote
\* output_pdf, the
\* exception that ended it, its exit status (-1 while it runs), and the
\* cache file as it was when save_translation_cache began
Running ==
    [exit_status |-> -1, error |-> "none", error_file |-> <<>>,
     extraction |-> "none", renderer |-> "none", output_written |-> FALSE, exception |-> "none",
     saving |-> FALSE, cache_file_before |-> NoFile]

\* main returns: the interpreter exits with status 0
Returned(o) == [o EXCEPT !.exit_status = 0]

\* an exception leaves main: traceback, exit status 1
Raised(o, exception) == [o EXCEPT !.exit_status = 1, !.exception = exception]

\* main lines 62-67: `if is_image_pdf:` extract_text_with_ocr, `else:`
\* extract_paragraphs
ExtractionStrategy(is_image) == IF is_image THEN "ocr" ELSE "parse"

\* the text-based renderer whatever the classification
RenderStrategy_clean_only(is_image) == "clean"

\* main lines 119-131: `if is_image_pdf:` create_translated_pdf_ocr_approach,
\* `else:` create_clean_translated_pdf
RenderStrategy(is_image) == IF is_image THEN "ocr" ELSE "clean"

\* line 84: `DEBUG_MODE and (page_num < DEBUG_START_PAGE or
\* (DEBUG_END_PAGE is not None and page_num > DEBUG_END_PAGE))`; the global
\* DEBUG_END_PAGE is unbound when --end-page was not given
PageTest(a, page_num) ==
    IF ~a.debug THEN "process"
    ELSE IF page_num < a.start_page THEN "skip"
    ELSE IF a.end_page = NoEndPage THEN "NameError"
    ELSE IF page_num > a.end_page THEN "skip"
    ELSE "process"

\* lines 83-87: from position <<pg, j>> of the nested loops, the next
\* paragraph translate_text is called for, the end of the loops, or the
\* exception raised on the way
RECURSIVE Advance(_, _, _, _)
Advance(by_page, a, pg, j) ==
    IF pg > Len(by_page) THEN [kind |-> "end", pos |-> <<pg, 1>>]
    ELSE LET test == IF j = 1 THEN PageTest(a, by_page[pg][1]) ELSE "process" IN
         IF test = "NameError" THEN [kind |-> "NameError", pos |-> <<pg, j>>]
         ELSE IF test = "skip" \/ j > Len(by_page[pg][2].list)
              THEN Advance(by_page, a, pg + 1, 1)
              ELSE [kind |-> "call", pos |-> <<pg, j>>]

TextAt(by_page, p) == by_page[p[1]][2].list[p[2]][1]

(***************************************************************************)
(* translate.py: create_clean_translated_pdf                               *)
(***************************************************************************)
\* a coordinate in hundredths of a point; the coordinates of the documents
\* are multiples of a quarter, so the sums, differences and comparisons
\* below are exact in floats as well
Hundredths(x) ==
    100 * x.ip + (IF Len(x.fp) = 0 THEN 0
                  ELSE IF Len(x.fp) = 1 THEN 10 * x.fp[1]
                  ELSE 10 * x.fp[1] + x.fp[2])

\* line 355: the ascending order
font_sizes_ascending == <<6, 7, 8, 9, 10, 11>>

\* line 355: `for font_size in [11, 10, 9, 8, 7, 6]`
font_sizes == <<11, 10, 9, 8, 7, 6>>

\* lines 377, 388-391 and 442, 449-451: `len(test_line) * font_size * 0.5 <
\* max_width` with max_width = bbox[2] - bbox[0] - 4
LineFits(line, word, font_size, bbox) ==
    50 * Len(Join(Append(line, word))) * font_size
        < Hundredths(bbox[3]) - Hundredths(bbox[1]) - 400

\* line 368 with a line height that grows as the font shrinks
line_height_inverse(font_size) == 20 - font_size

\* line 368: `line_height = font_size + 2`
line_height(font_size) == font_size + 2

\* lines 383-409 when no insertion raises: the words from the w-th on, the
\* current line and the number k of lines already closed; FALSE when the
\* height check of line 407 breaks the loop
RECURSIVE WrapTest(_, _, _, _, _, _)
WrapTest(words, w, line, k, font_size, bbox) ==
    IF w > Len(words) THEN TRUE
    ELSE IF line = <<>> \/ LineFits(line, words[w], font_size, bbox)
    THEN WrapTest(words, w + 1, Append(line, words[w]), k, font_size, bbox)
    ELSE IF 100 * (k + 1) * line_height(font_size)
                > Hundredths(bbox[4]) - Hundredths(bbox[2]) - 500
    THEN FALSE
    ELSE WrapTest(words, w + 1, <<words[w]>>, k + 1, font_size, bbox)

\* lines 357-426, the value of `fits` for one candidate size: text of no
\* word inserts nothing; otherwise at least one insert_text is called before
\* any height check, and an exception of it gives False (lines 398-401,
\* 416-417)
FitTest(translated_text, bbox, font_size, raises) ==
    LET words == Split(translated_text) IN
    IF words = <<>> THEN TRUE
    ELSE ~raises /\ WrapTest(words, 1, <<>>, 0, font_size, bbox)

\* lines 440-463: the lines the commit pass inserts, in order
RECURSIVE WrapLines(_, _, _, _, _)
WrapLines(words, w, line, font_size, bbox) ==
    IF w > Len(words) THEN (IF line = <<>> THEN <<>> ELSE <<Join(line)>>)
    ELSE IF line = <<>> \/ LineFits(line, words[w], font_size, bbox)
    THEN WrapLines(words, w + 1, Append(line, words[w]), font_size, bbox)
    ELSE <<Join(line)>> \o WrapLines(words, w + 1, <<words[w]>>, font_size, bbox)

\* lines 436-438, 455-458 and 462: the k-th line is inserted at
\* (bbox[0] + 2, bbox[1] + best_font_size + (k - 1) * line_height)
InsertedLine(lines, k, best_font_size, bbox) ==
    [x |-> Hundredths(bbox[1]) + 200,
     y |-> Hundredths(bbox[2]) + 100 * best_font_size
               + 100 * (k - 1) * line_height(best_font_size),
     text |-> lines[k], fontsize |-> best_font_size]

\* a page of dst_doc: a copy of the source page (line 284), or a new page
\* (line 303) with the images (of the whole source page, line 323, or of a
\* fragment, lines 166-251), rectangles and text lines put on it
CopiedPage == [copied |-> TRUE, images |-> <<>>, rects |-> <<>>, texts |-> <<>>]
NewPage == [copied |-> FALSE, images |-> <<>>, rects |-> <<>>, texts |-> <<>>]

\* the frame of a renderer: debug_mode, start_page and end_page as bound by
\* the call; page_idx and i the positions of the page loop and of the
\* fragment loop; translated_text, sizes (the candidates not tried yet),
\* tried, raised (an insert_text of a fit test raised) and best_font_size (0
\* for None) of the fragment at hand; dst_doc; the temporary documents open
\* and the temporary files on disk; the warnings printed; and a record of
\* every fragment the fit search has finished with
NoRender ==
    [debug_mode |-> FALSE, start_page |-> 0, end_page |-> NoEndPage,
     page_idx |-> 0, i |-> 0, translated_text |-> <<>>, sizes |-> <<>>,
     tried |-> <<>>, raised |-> FALSE, best_font_size |-> 0,
     dst_doc |-> <<>>, open_docs |-> {}, temp_files |-> {},
     log |-> <<>>, done |-> <<>>]

\* main lines 129-131: six positional arguments, so debug_mode, start_page
\* and end_page keep their defaults (translate.py line 258)
CleanCall(a) ==
    [NoRender EXCEPT !.debug_mode = FALSE, !.start_page = 0, !.end_page = NoEndPage]

\* line 282
PageSkipped(r, page_idx) ==
    r.debug_mode /\ (page_idx < r.start_page
                     \/ (r.end_page # NoEndPage /\ page_idx > r.end_page))

\* line 291 (ocr.py line 179): `paragraphs_by_page.get(page_idx, [])`
ParagraphsOf(by_page, page_idx) ==
    IF \E k \in 1..Len(by_page) : by_page[k][1] = page_idx
    THEN by_page[CHOOSE k \in 1..Len(by_page) : by_page[k][1] = page_idx][2].list
    ELSE <<>>

\* lines 345-350 without the cache: always the original text
Lookup_original_only(cache, file_md5, text) ==
    [found |-> FALSE, translated_text |-> text]

\* lines 345-350: the cached translation, or the original text
Lookup(cache, file_md5, text) ==
    IF CacheHas(cache, file_md5, get_text_md5(text))
    THEN [found |-> TRUE, translated_text |-> cache[file_md5][get_text_md5(text)]]
    ELSE [found |-> FALSE, translated_text |-> text]

\* what is known of a fragment when the renderer is done with it
Fragment(r, text, bbox) ==
    [page_idx |-> r.page_idx, paragraph |-> r.i, text |-> text, bbox |-> bbox,
     translated_text |-> r.translated_text, tried |-> r.tried,
     raised |-> r.raised, best_font_size |-> r.best_font_size]

Message(msg, r) == [msg |-> msg, page_idx |-> r.page_idx, paragraph |-> r.i]

(***************************************************************************)
(* The state machine: invocations of main, one after the other.            *)
(***************************************************************************)
Init ==
    /\ cache_file = NoFile
    /\ paragraphs_files = [d \in Docs |-> NoParagraphsFile]
    /\ pc = "none"
    /\ runs = 0
    /\ args = NoArgs
    /\ translation_cache = EmptyCache
    /\ is_image_pdf = FALSE
    /\ paragraphs_by_page = <<>>
    /\ pos = <<1, 1>>
    /\ call = NoCall
    /\ hist = <<>>
    /\ out = Running
    /\ saved = [d \in Docs |-> <<>>]
    /\ pdf = <<>>
    /\ render = NoRender

\* main, `translate` command, lines 12-77: parse the arguments, load the
\* cache, classify the document, extract the paragraphs and write
\* <hash>_paragraphs.json
MainTranslate(input_pdf, ignore_cache, dbg) ==
    /\ pc \in {"none", "exited"}
    /\ runs < MaxRuns
    /\ runs' = runs + 1
    /\ args' = [command |-> "translate", input_pdf |-> input_pdf,
                ignore_cache |-> ignore_cache, debug |-> dbg.debug,
                start_page |-> dbg.start_page, end_page |-> dbg.end_page]
    /\ translation_cache' = load_translation_cache(cache_file)
    /\ pdf' = DocPages(input_pdf)
    /\ is_image_pdf' = is_image_based_pdf(pdf').ret
    /\ out' = [Running EXCEPT !.extraction = ExtractionStrategy(is_image_pdf')]
    /\ paragraphs_by_page' = IF out'.extraction = "ocr"
                             THEN extract_text_with_ocr(input_pdf)
                             ELSE extract_paragraphs(input_pdf)
    /\ paragraphs_files' =
          [paragraphs_files EXCEPT ![input_pdf] =
              [exists |-> TRUE, json |-> SaveParagraphs(paragraphs_by_page')]]
    /\ pos' = <<1, 1>>
    /\ call' = NoCall
    /\ hist' = <<>>
    /\ saved' = [saved EXCEPT ![input_pdf] = paragraphs_by_page']
    /\ pc' = "loop"
    /\ render' = NoRender
    /\ UNCHANGED cache_file

\* the translate loop, lines 83-90, up to and into the call of
\* translate_text (lines 14-35 of translate.py): the cache lookup and the
\* configuration check
Translate ==
    /\ pc = "loop"
    /\ LET nxt == Advance(paragraphs_by_page, args, pos[1], pos[2]) IN
       \/ /\ nxt.kind = "end"
          /\ pc' = "save"
          /\ pos' = nxt.pos
          /\ UNCHANGED <<call, hist, out>>
       \/ /\ nxt.kind = "NameError"
          /\ pc' = "exited"
          /\ out' = Raised(out, "NameError")
          /\ pos' = nxt.pos
          /\ UNCHANGED <<call, hist>>
       \/ /\ nxt.kind = "call"
          /\ pos' = nxt.pos
          /\ LET c == EnterCall(TextAt(paragraphs_by_page, nxt.pos)) IN
             \/ /\ CacheHit(translation_cache, args.input_pdf, c.text_md5,
                            args.ignore_cache)
                /\ call' = Return(c, "hit",
                                  translation_cache[args.input_pdf][c.text_md5], FALSE)
                /\ hist' = Append(hist, Summary(call'))
                /\ pc' = "returned"
             \/ /\ ~CacheHit(translation_cache, args.input_pdf, c.text_md5,
                             args.ignore_cache)
                /\ \E configured \in BOOLEAN :
                      IF configured
                      THEN /\ call' = [c EXCEPT !.retry_delay = retry_delay_initial]
                           /\ hist' = hist
                           /\ pc' = "request"
                      ELSE /\ call' = Return(c, "noconfig", c.text, FALSE)
                           /\ hist' = Append(hist, Summary(call'))
                           /\ pc' = "returned"
          /\ UNCHANGED out
    /\ UNCHANGED <<cache_file, paragraphs_files, runs, args, translation_cache,
                   is_image_pdf, paragraphs_by_page, saved, pdf, render>>

\* one attempt that fails: requests.post raises ("transport"), the status
\* is not 200 ("status"), or the status is 200 and response.json(), the
\* index [0] or a key lookup raises ("unparsable": not JSON, an empty
\* choices list, no message or content); lines 54-63 and 78-92
RequestFails(outcome) ==
    /\ pc = "request"
    /\ IF outcome = "status" \/ InTry(outcome)
       THEN /\ call' = AfterFailure(Requesting(call), outcome)
            /\ IF call'.result = "running"
               THEN pc' = "request" /\ hist' = hist
               ELSE pc' = "returned" /\ hist' = Append(hist, Summary(call'))
            /\ out' = out
       ELSE /\ call' = Return([Requesting(call) EXCEPT !.outcomes = Append(@, outcome)],
                              "raised", <<>>, FALSE)
            /\ hist' = Append(hist, Summary(call'))
            /\ out' = Raised(out, outcome)
            /\ pc' = "exited"
    /\ UNCHANGED <<cache_file, paragraphs_files, runs, args, translation_cache,
                   is_image_pdf, paragraphs_by_page, pos, saved, pdf, render>>

\* one attempt answered with status 200 and a JSON body without 'response'
\* or without 'choices' in it; lines 60-66
RequestWrongShape ==
    /\ pc = "request"
    /\ call' = Return([Requesting(call) EXCEPT !.outcomes = Append(@, "shape")],
                      "shape", call.text, FALSE)
    /\ hist' = Append(hist, Summary(call'))
    /\ pc' = "returned"
    /\ UNCHANGED <<cache_file, paragraphs_files, runs, args, translation_cache,
                   is_image_pdf, paragraphs_by_page, pos, out, saved, pdf, render>>

\* one attempt answered with status 200 and a translation; lines 60-77
RequestOk(raw) ==
    /\ pc = "request"
    /\ LET translated == Strip(raw) IN
       /\ translation_cache' =
             StoreTranslation(translation_cache, args.input_pdf, call.text_md5,
                              translated)
       /\ call' = Return([Requesting(call) EXCEPT !.outcomes = Append(@, "ok"),
                                                  !.raw = raw],
                         "ok", translated, translation_cache' # translation_cache)
    /\ hist' = Append(hist, Summary(call'))
    /\ pc' = "returned"
    /\ UNCHANGED <<cache_file, paragraphs_files, runs, args,
                   is_image_pdf, paragraphs_by_page, pos, out, saved, pdf, render>>

\* main lines 92-96: "ensure the translation is in the cache"
MainStore ==
    /\ pc = "returned"
    /\ translation_cache' =
          CachePut(translation_cache, args.input_pdf, get_text_md5(call.text), call.ret)
    /\ pos' = <<pos[1], pos[2] + 1>>
    /\ call' = NoCall
    /\ pc' = "loop"
    /\ UNCHANGED <<cache_file, paragraphs_files, runs, args,
                   is_image_pdf, paragraphs_by_page, hist, out, saved, pdf, render>>

\* main lines 98-100: save_translation_cache, and main returns
SaveCache ==
    /\ pc = "save"
    /\ cache_file' = save_translation_cache(translation_cache)
    /\ out' = Returned([out EXCEPT !.cache_file_before = cache_file])
    /\ pc' = "exited"
    /\ UNCHANGED <<paragraphs_files, runs, args, translation_cache,
                   is_image_pdf, paragraphs_by_page, pos, call, hist, saved, pdf, render>>

\* main, `regenerate` command, lines 12-58 and 101-116: parse the
\* arguments, load the cache, classify the document, and load
\* <hash>_paragraphs.json, or report that it is missing and return
MainRegenerate(input_pdf, ignore_cache, dbg) ==
    /\ pc \in {"none", "exited"}
    /\ runs < MaxRuns
    /\ runs' = runs + 1
    /\ args' = [command |-> "regenerate", input_pdf |-> input_pdf,
                ignore_cache |-> ignore_cache, debug |-> dbg.debug,
                start_page |-> dbg.start_page, end_page |-> dbg.end_page]
    /\ translation_cache' = load_translation_cache(cache_file)
    /\ pdf' = DocPages(input_pdf)
    /\ is_image_pdf' = is_image_based_pdf(pdf').ret
    /\ pos' = <<1, 1>>
    /\ call' = NoCall
    /\ hist' = <<>>
    /\ IF ~paragraphs_files[input_pdf].exists
       THEN /\ paragraphs_by_page' = <<>>
            /\ out' = Returned([Running EXCEPT
                                   !.error = "paragraphs file not found",
                                   !.error_file = ParagraphsFileName(input_pdf)])
            /\ pc' = "exited"
       ELSE /\ paragraphs_by_page' = LoadParagraphs(paragraphs_files[input_pdf].json)
            /\ out' = Running
            /\ pc' = "render"
    /\ render' = NoRender
    /\ UNCHANGED <<cache_file, paragraphs_files, saved>>

\* how create_translated_pdf_ocr_approach ends when called as main calls it,
\* with (translation_cache, file_md5, args.font) bound to (debug_mode,
\* start_page, end_page): it returns without output when no Cyrillic font
\* is found (line 161); a non-empty cache makes debug_mode true and
\* `page_num < start_page` compares an int with a str (line 173); otherwise
\* the first page with paragraphs calls translate_text(text) without its
\* required arguments (line 210)
OcrOutcome(font_found, cache, by_page, page_count) ==
    IF ~font_found THEN "no font"
    ELSE IF page_count = 0 THEN "written"
    ELSE IF cache # EmptyCache THEN "TypeError"
    ELSE IF \E i \in 1..Len(by_page) :
               by_page[i][1] < page_count /\ by_page[i][2].list # <<>>
         THEN "TypeError"
         ELSE "written"

\* ocr.py line 198: the page whose temp_page_<n>.jpg has been written when
\* translate_text(text) raises: the first page with paragraphs
OcrFirstPage(by_page, page_count) ==
    LET with == {n \in 0..(page_count - 1) : ParagraphsOf(by_page, n) # <<>>}
    IN CHOOSE n \in with : \A m \in with : n <= m

\* main lines 118-124 and 131: the image-based renderer; on a TypeError of
\* line 210 the pages before the first one with paragraphs have been copied
\* (line 183), temp_page_<n>.jpg is on disk (lines 198-200) and lines
\* 265-266 are not reached
RenderOcr ==
    /\ pc = "render"
    /\ RenderStrategy(is_image_pdf) = "ocr"
    /\ \E font_found \in BOOLEAN :
          LET outcome == OcrOutcome(font_found, translation_cache, paragraphs_by_page,
                                    Len(pdf))
              o == [out EXCEPT !.renderer = "ocr",
                               !.output_written = (outcome = "written")]
              called == [NoRender EXCEPT !.debug_mode = (translation_cache # EmptyCache)]
          IN /\ out' = IF outcome = "TypeError" THEN Raised(o, "TypeError") ELSE Returned(o)
             /\ render' =
                   IF outcome = "written"
                   THEN [called EXCEPT !.page_idx = Len(pdf),
                                       !.dst_doc = [n \in 1..Len(pdf) |-> CopiedPage]]
                   ELSE IF outcome = "TypeError" /\ translation_cache = EmptyCache
                   THEN LET n == OcrFirstPage(paragraphs_by_page, Len(pdf)) IN
                        [called EXCEPT !.page_idx = n, !.i = 1,
                                       !.dst_doc = [m \in 1..n |-> CopiedPage],
                                       !.temp_files = {n}]
                   ELSE called
    /\ pc' = "exited"
    /\ UNCHANGED <<cache_file, paragraphs_files, runs, args, translation_cache,
                   is_image_pdf, paragraphs_by_page, pos, call, hist, saved, pdf>>

\* main lines 125-131 and translate.py lines 254-277: the text-based
\* renderer is called and opens its documents
RenderClean ==
    /\ pc = "render"
    /\ RenderStrategy(is_image_pdf) = "clean"
    /\ out' = [out EXCEPT !.renderer = "clean"]
    /\ render' = CleanCall(args)
    /\ pc' = "page"
    /\ UNCHANGED <<cache_file, paragraphs_files, runs, args, translation_cache,
                   is_image_pdf, paragraphs_by_page, pos, call, hist, saved, pdf>>

\* lines 280-335: the next page is copied when the debug range excludes it;
\* otherwise temp_doc and mask_doc are opened, the new page of dst_doc gets
\* the image of the whole source page, and the fragment loop begins
RenderPage ==
    /\ pc = "page"
    /\ render.page_idx < Len(pdf)
    /\ IF PageSkipped(render, render.page_idx)
       THEN /\ render' = [render EXCEPT !.dst_doc = Append(@, CopiedPage),
                                        !.page_idx = @ + 1]
            /\ pc' = "page"
       ELSE /\ render' = [render EXCEPT
                             !.open_docs = {"temp_doc", "mask_doc"},
                             !.dst_doc = Append(@, [NewPage EXCEPT !.images = <<[of |-> "page"]>>]),
                             !.i = 1]
            /\ pc' = "fragment"
    /\ UNCHANGED <<cache_file, paragraphs_files, runs, args, translation_cache,
                   is_image_pdf, paragraphs_by_page, pos, call, hist, out, saved, pdf>>

\* lines 338-353: the next fragment of the page is skipped when it is a
\* formula; otherwise its translation is looked up and the fit search begins
BeginFragment ==
    /\ pc = "fragment"
    /\ LET paragraphs == ParagraphsOf(paragraphs_by_page, render.page_idx) IN
       /\ render.i <= Len(paragraphs)
       /\ LET text == paragraphs[render.i][1] IN
          IF is_formula(text)
          THEN /\ render' = [render EXCEPT
                                !.log = Append(@, Message("Skipping formula", render)),
                                !.i = @ + 1]
               /\ pc' = "fragment"
          ELSE LET found == Lookup(translation_cache, args.input_pdf, text) IN
               /\ render' = [render EXCEPT
                                !.log = IF found.found THEN @
                                        ELSE Append(@, Message("Translation not found", render)),
                                !.translated_text = found.translated_text,
                                !.sizes = font_sizes, !.tried = <<>>,
                                !.raised = FALSE, !.best_font_size = 0]
               /\ pc' = "fit"
    /\ UNCHANGED <<cache_file, paragraphs_files, runs, args, translation_cache,
                   is_image_pdf, paragraphs_by_page, pos, call, hist, out, saved, pdf>>

\* lines 355-426 and 464-465, one candidate size: the fit test on the
\* scratch document, `raises` telling whether insert_text raises in it; the
\* first size that fits ends the search; when the last one does not fit,
\* "Could not fit text" is printed and the fragment loop goes on
FitTry(raises) ==
    /\ pc = "fit"
    /\ LET p == ParagraphsOf(paragraphs_by_page, render.page_idx)[render.i]
           font_size == Head(render.sizes)
           fits == FitTest(render.translated_text, p[2], font_size, raises)
           r == [render EXCEPT
                    !.tried = Append(@, [font_size |-> font_size, fits |-> fits]),
                    !.raised = @ \/ (raises /\ Split(render.translated_text) # <<>>),
                    !.sizes = Tail(@)]
       IN IF fits
          THEN /\ render' = [r EXCEPT !.best_font_size = font_size]
               /\ pc' = "commit"
          ELSE IF r.sizes = <<>>
          THEN /\ render' = [r EXCEPT
                                !.log = Append(@, Message("Could not fit text", r)),
                                !.done = Append(@, Fragment(r, p[1], p[2])),
                                !.i = @ + 1]
               /\ pc' = "fragment"
          ELSE /\ render' = r
               /\ pc' = "fit"
    /\ UNCHANGED <<cache_file, paragraphs_files, runs, args, translation_cache,
                   is_image_pdf, paragraphs_by_page, pos, call, hist, out, saved, pdf>>

\* lines 429-463: the white rectangle over the bbox and the lines of the
\* translated text at best_font_size; insert_text is not in a try here, so
\* when the failing-th insertion raises (0: none does) the exception leaves
\* the renderer and main
Commit ==
    /\ pc = "commit"
    /\ LET p == ParagraphsOf(paragraphs_by_page, render.page_idx)[render.i]
           lines == WrapLines(Split(render.translated_text), 1, <<>>,
                              render.best_font_size, p[2])
       IN \E failing \in 0..Len(lines) :
             LET inserted == IF failing = 0 THEN Len(lines) ELSE failing - 1
                 page == Len(render.dst_doc)
                 r == [render EXCEPT
                          !.dst_doc[page].rects = Append(@, p[2]),
                          !.dst_doc[page].texts =
                              @ \o [k \in 1..inserted |->
                                      InsertedLine(lines, k, render.best_font_size, p[2])]]
             IN IF failing = 0
                THEN /\ render' = [r EXCEPT !.done = Append(@, Fragment(r, p[1], p[2])),
                                            !.i = @ + 1]
                     /\ out' = out
                     /\ pc' = "fragment"
                ELSE /\ render' = r
                     /\ out' = Raised(out, "insert_text")
                     /\ pc' = "exited"
    /\ UNCHANGED <<cache_file, paragraphs_files, runs, args, translation_cache,
                   is_image_pdf, paragraphs_by_page, pos, call, hist, saved, pdf>>

\* lines 467-469: after the last fragment of the page, temp_doc and mask_doc
\* are closed
EndPage ==
    /\ pc = "fragment"
    /\ render.i > Len(ParagraphsOf(paragraphs_by_page, render.page_idx))
    /\ render' = [render EXCEPT !.open_docs = {}, !.page_idx = @ + 1, !.i = 0]
    /\ pc' = "page"
    /\ UNCHANGED <<cache_file, paragraphs_files, runs, args, translation_cache,
                   is_image_pdf, paragraphs_by_page, pos, call, hist, out, saved, pdf>>

\* lines 471-476 and main line 133: after the last page dst_doc is saved to
\* output_pdf, and main returns
RenderSave ==
    /\ pc = "page"
    /\ render.page_idx = Len(pdf)
    /\ out' = Returned([out EXCEPT !.output_written = TRUE])
    /\ pc' = "exited"
    /\ UNCHANGED <<cache_file, paragraphs_files, runs, args, translation_cache,
                   is_image_pdf, paragraphs_by_page, pos, call, hist, saved, pdf,
                   render>>

FailureOutcomes == {"transport", "status", "unparsable"}

Next ==
    \/ \E d \in Docs, ign \in BOOLEAN, dbg \in DebugArgs : MainTranslate(d, ign, dbg)
    \/ \E d \in Docs, ign \in BOOLEAN, dbg \in DebugArgs : MainRegenerate(d, ign, dbg)
    \/ Translate
    \/ \E outcome \in FailureOutcomes : RequestFails(outcome)
    \/ RequestWrongShape
    \/ \E raw \in RawContents : RequestOk(raw)
    \/ MainStore
    \/ SaveCache
    \/ RenderOcr
    \/ RenderClean
    \/ RenderPage
    \/ BeginFragment
    \/ \E raises \in BOOLEAN : FitTry(raises)
    \/ Commit
    \/ EndPage
    \/ RenderSave

Spec == Init /\ [][Next]_vars

(***************************************************************************)
(* The same machine with save_translation_cache in its two steps, and the  *)
(* process killed between them.                                            *)
(***************************************************************************)
\* utils.py line 31: open(cache_file, 'w') creates the file or truncates it
\* to length zero
SaveOpen ==
    /\ pc = "save"
    /\ cache_file' = PartialFile
    /\ out' = [out EXCEPT !.saving = TRUE, !.cache_file_before = cache_file]
    /\ pc' = "dump"
    /\ UNCHANGED <<paragraphs_files, runs, args, translation_cache,
                   is_image_pdf, paragraphs_by_page, pos, call, hist, saved, pdf, render>>

\* utils.py line 32: json.dump has written the whole text and the file is
\* closed; main returns
SaveDump ==
    /\ pc = "dump"
    /\ cache_file' = CompleteFile(translation_cache)
    /\ out' = Returned([out EXCEPT !.saving = FALSE])
    /\ pc' = "exited"
    /\ UNCHANGED <<paragraphs_files, runs, args, translation_cache,
                   is_image_pdf, paragraphs_by_page, pos, call, hist, saved, pdf, render>>

\* the process is killed after open and before json.dump has written the
\* whole text: the file keeps the part written so far
Crash ==
    /\ pc = "dump"
    /\ out' = [out EXCEPT !.exit_status = 137, !.exception = "killed"]
    /\ pc' = "exited"
    /\ UNCHANGED <<cache_file, paragraphs_files, runs, args, translation_cache,
                   is_image_pdf, paragraphs_by_page, pos, call, hist, saved, pdf, render>>

NextCrash ==
    \/ \E d \in Docs, ign \in BOOLEAN, dbg \in DebugArgs : MainTranslate(d, ign, dbg)
    \/ \E d \in Docs, ign \in BOOLEAN, dbg \in DebugArgs : MainRegenerate(d, ign, dbg)
    \/ Translate
    \/ \E outcome \in FailureOutcomes : RequestFails(outcome)
    \/ RequestWrongShape
    \/ \E raw \in RawContents : RequestOk(raw)
    \/ MainStore
    \/ SaveOpen
    \/ SaveDump
    \/ Crash
    \/ RenderOcr
    \/ RenderClean
    \/ RenderPage
    \/ BeginFragment
    \/ \E raises \in BOOLEAN : FitTry(raises)
    \/ Commit
    \/ EndPage
    \/ RenderSave

SpecCrash == Init /\ [][NextCrash]_vars

(***************************************************************************)
(* Properties of translate_text.                                           *)
(***************************************************************************)
\* C1: within an invocation without cache bypass, when a call of
\* translate_text for a text needed exactly one request, which succeeded,
\* every later call for the same text of the same document is a cache hit:
\* it issues no request (one request in total), returns the value the
\* first call stored and returned, and leaves the cache unchanged.
C1_SecondCallIsCacheHit ==
    \A i \in 1..Len(hist) : \A j \in (i + 1)..Len(hist) :
        ( /\ ~args.ignore_cache
          /\ hist[i].text = hist[j].text
          /\ hist[i].result = "ok"
          /\ hist[i].requests = 1 )
        => /\ hist[j].result = "hit"
           /\ hist[j].requests = 0
           /\ hist[i].requests + hist[j].requests = 1
           /\ hist[j].ret = hist[i].ret
           /\ ~hist[j].changed

C1_Witness ==
    /\ pc = "returned"
    /\ ~args.ignore_cache
    /\ Len(hist) = 2
    /\ hist[1].text = hist[2].text
    /\ hist[1].result = "ok" /\ hist[1].requests = 1
    /\ hist[2].result = "hit"

\* C2: translate_text never raises, and a call in which no attempt yields a
\* well-formed translation (every attempt ended in a transport exception, a
\* non-200 status or a 200 body that cannot be read, or one attempt got a
\* 200 body without the response/choices shape) returns the original text.
C2_NeverRaises ==
    /\ call.result # "raised"
    /\ \A i \in 1..Len(hist) : hist[i].result # "raised"
    /\ call.result \in {"exhausted", "shape"} => call.ret = call.text
    /\ \A i \in 1..Len(hist) :
          hist[i].result \in {"exhausted", "shape"} => hist[i].ret = hist[i].text

C2_Witness ==
    /\ pc = "returned"
    /\ call.result = "exhausted"
    /\ call.outcomes = <<"transport", "status", "unparsable">>
    /\ call.ret = call.text

\* C3: a call issues at most 3 requests, waits 2s before the second and 4s
\* before the third, issues no request after a success or a third failure,
\* and retries only after a transport or non-success-status failure.
C3_RetryPolicy ==
    /\ call.requests <= 3
    /\ Len(call.sleeps) <= 2
    /\ \A i \in 1..Len(call.sleeps) : call.sleeps[i] = 2 * i
    /\ \A i \in 1..Len(call.sleeps) : call.outcomes[i] \in {"transport", "status"}
    /\ pc = "request" =>
          /\ call.result = "running"
          /\ call.requests < 3
          /\ \A i \in 1..Len(call.outcomes) : call.outcomes[i] # "ok"

\* C4: when the k-th attempt of a call is the first to return a well-formed
\* success, the call returns that translation and, when it returns, the
\* cache holds it under (document hash, text hash).
C4_SuccessIsReturnedAndCached ==
    call.result = "ok" =>
        /\ call.requests = Len(call.outcomes)
        /\ \A i \in 1..(call.requests - 1) : call.outcomes[i] \in FailureOutcomes
        /\ call.ret = Strip(call.raw)
        /\ CacheHas(translation_cache, args.input_pdf, get_text_md5(call.text))
        /\ translation_cache[args.input_pdf][get_text_md5(call.text)] = call.ret

C4_Witness ==
    /\ pc = "returned"
    /\ call.result = "ok"
    /\ call.requests = 3
    /\ call.raw = <<" ", "y", " ">>
    /\ call.ret = <<"y">>

(***************************************************************************)
(* Properties of the cache across invocations.                             *)
(***************************************************************************)
\* the entries of the documents other than `doc` are in `e` as they are in `c`
PreservedOthers(c, e, doc) ==
    \A d \in DOMAIN c \ {doc} : d \in DOMAIN e /\ e[d] = c[d]

\* C5: in every step of every invocation that does not bypass the cache
\* (--ignore-cache, the only invalidation the program has), every entry of
\* the in-memory cache and of the cache file stays present with its value;
\* in every step of any invocation the entries of the other documents
\* stay as they are.
C5_CacheIsAdditive ==
    [][ /\ ~(args'.command = "translate" /\ args'.ignore_cache) =>
              /\ Preserved(translation_cache, translation_cache')
              /\ Preserved(cache_file.data, cache_file'.data)
              /\ cache_file.complete => cache_file'.complete
        /\ PreservedOthers(translation_cache, translation_cache', args'.input_pdf)
        /\ PreservedOthers(cache_file.data, cache_file'.data, args'.input_pdf)
      ]_vars

\* the third invocation finds in the cache what the first two stored for
\* two documents
C5_Witness ==
    /\ runs >= 2
    /\ pc = "exited"
    /\ args.command = "translate"
    /\ ~args.ignore_cache
    /\ out.exit_status = 0
    /\ DOMAIN out.cache_file_before.data # {}
    /\ DOMAIN cache_file.data = Docs
    /\ \E i \in 1..Len(hist) : hist[i].result = "ok"

\* the number of calls of this invocation for text t that got a translation
Successes(t) ==
    Cardinality({i \in 1..Len(hist) : hist[i].text = t /\ hist[i].result = "ok"})

\* while the translate loop runs, a call is answered from the cache only
\* when the key of its own text was in the cache the invocation loaded or
\* an earlier call of the invocation was for the same text
HitsAreOwnKey ==
    out.exit_status = -1 =>
        \A j \in 1..Len(hist) :
            hist[j].result = "hit" =>
                \/ CacheHas(load_translation_cache(cache_file), args.input_pdf,
                            get_text_md5(hist[j].text))
                \/ \E i \in 1..(j - 1) : hist[i].text = hist[j].text

\* the texts of the paragraphs last extracted from document d
TextsOf(d) ==
    UNION { { saved[d][i][2].list[j][1] : j \in 1..Len(saved[d][i][2].list) } :
              i \in 1..Len(saved[d]) }

\* a document has no more cache entries than distinct texts
OneEntryPerText ==
    \A d \in DOMAIN translation_cache :
        Cardinality(DOMAIN translation_cache[d]) <= Cardinality(TextsOf(d))

\* C6 as stated: in any translate invocation, fragments with identical text
\* share one cache entry and cause at most one successful request, and
\* texts differing in one character have different keys, each served only
\* by its own request or entry.
C6_Original ==
    /\ \A t \in Texts : Successes(t) <= 1
    /\ OneEntryPerText
    /\ get_text_md5(T1) # get_text_md5(T2)
    /\ HitsAreOwnKey

\* C6 as amended: the bound on successful requests holds in the invocations
\* that do not bypass the cache.
C6_ContentAddressed ==
    /\ ~args.ignore_cache => \A t \in Texts : Successes(t) <= 1
    /\ OneEntryPerText
    /\ get_text_md5(T1) # get_text_md5(T2)
    /\ HitsAreOwnKey

\* two pages of d1 carry the same text: one request, then a hit
C6_Witness ==
    /\ pc = "loop"
    /\ args.input_pdf = "d1"
    /\ ~args.ignore_cache
    /\ Len(hist) = 2
    /\ hist[1].result = "ok" /\ hist[2].result = "hit"
    /\ Cardinality(DOMAIN translation_cache["d1"]) = 1

\* C7: when the process is killed during save_translation_cache, the cache
\* file read back still has every entry it had when the save began.
C7_CrashKeepsSavedEntries ==
    (pc = "exited" /\ out.exception = "killed") =>
        Preserved(out.cache_file_before.data, load_translation_cache(cache_file))

\* C9: regenerate without <hash>_paragraphs.json reports the missing file by
\* name, calls no renderer, writes no output and ends in failure.
C9_MissingStoreIsFailure ==
    (pc = "exited" /\ args.command = "regenerate"
        /\ ~paragraphs_files[args.input_pdf].exists) =>
        /\ out.error = "paragraphs file not found"
        /\ out.error_file = ParagraphsFileName(args.input_pdf)
        /\ out.renderer = "none"
        /\ ~out.output_written
        /\ out.exit_status # 0


(***************************************************************************)
(* Properties of main.                                                     *)
(***************************************************************************)
\* C12: the classification alone selects the strategy: `translate`
\* extracts by OCR exactly when the document is classified image-based and
\* by direct parsing otherwise, and a `regenerate` that reaches the choice
\* of a renderer calls the image-based renderer exactly when the document
\* is classified image-based, the text-based one otherwise.
C12_ClassificationSelectsStrategy ==
    /\ (args.command = "translate" /\ pc # "none") =>
          /\ out.extraction = (IF is_image_pdf THEN "ocr" ELSE "parse")
          /\ saved[args.input_pdf] = (IF is_image_pdf
                                      THEN extract_text_with_ocr(args.input_pdf)
                                      ELSE extract_paragraphs(args.input_pdf))
          /\ out.renderer = "none"
    /\ args.command = "regenerate" =>
          /\ out.extraction = "none"
          /\ out.renderer # "none" =>
                out.renderer = (IF is_image_pdf THEN "ocr" ELSE "clean")
          /\ (pc = "exited" /\ out.error = "none") => out.renderer # "none"

\* a document of average ratio 0.25 was extracted by OCR and a later
\* `regenerate` of it called the image-based renderer
C12_Witness ==
    /\ args.command = "regenerate"
    /\ Len(pdf) = 1
    /\ pdf[1].text_blocks = 1 /\ pdf[1].image_blocks = 3
    /\ is_image_pdf
    /\ out.renderer = "ocr"
    /\ paragraphs_by_page = extract_text_with_ocr(args.input_pdf)

\* C20: after a `translate` run the cache holds an entry for (document
\* hash, text hash) only if the entry existed before the run or a request
\* for that text returned a well-formed success during the run: a
\* passthrough result is never stored as a translation.
C20_OnlySuccessesStored ==
    (args.command = "translate" /\ pc \in {"loop", "request", "returned", "save"}) =>
        \A d \in DOMAIN translation_cache : \A h \in DOMAIN translation_cache[d] :
            \/ CacheHas(load_translation_cache(cache_file), d, h)
            \/ /\ d = args.input_pdf
               /\ \E i \in 1..Len(hist) : /\ hist[i].result = "ok"
                                          /\ get_text_md5(hist[i].text) = h

\* the heuristic in exact arithmetic: more than one math symbol in fewer
\* than five words, or more than one math symbol per twenty characters
MathSymbols == {"=", "+", "-", "*", "/", "^"}

FormulaHeuristic(text) ==
    LET count == Cardinality({i \in 1..Len(text) : text[i] \in MathSymbols})
    IN (count > 1 /\ Len(Split(text)) < 5) \/ 20 * count > Len(text)

\* two boxes share a region of positive area
Overlap(a, b) ==
    /\ Hundredths(a[1]) < Hundredths(b[3]) /\ Hundredths(b[1]) < Hundredths(a[3])
    /\ Hundredths(a[2]) < Hundredths(b[4]) /\ Hundredths(b[2]) < Hundredths(a[4])

\* the point (x, y), in hundredths, lies in the box
Inside(x, y, b) ==
    /\ Hundredths(b[1]) <= x /\ x <= Hundredths(b[3])
    /\ Hundredths(b[2]) <= y /\ y <= Hundredths(b[4])

\* C13: a fragment the formula heuristic classifies as a formula is never
\* passed to translate_text, whichever extraction ran, and during
\* `regenerate` no rectangle and no text line is put over the box of a
\* formula block of the source page; the image-based renderer draws nothing
\* at all.
C13_FormulasAreLeftAlone ==
    /\ \A i \in 1..Len(hist) : ~FormulaHeuristic(hist[i].text)
    /\ ~FormulaHeuristic(call.text)
    /\ \A i \in 1..Len(paragraphs_by_page) :
          \A j \in 1..Len(paragraphs_by_page[i][2].list) :
             ~FormulaHeuristic(paragraphs_by_page[i][2].list[j][1])
    /\ \A n \in 1..Len(render.dst_doc) :
          /\ out.renderer = "ocr" =>
                render.dst_doc[n].rects = <<>> /\ render.dst_doc[n].texts = <<>>
          /\ \A b \in 1..Len(pdf[n].blocks) :
                (pdf[n].blocks[b].type = 0 /\ FormulaHeuristic(pdf[n].blocks[b].text)) =>
                   /\ \A k \in 1..Len(render.dst_doc[n].rects) :
                         ~Overlap(render.dst_doc[n].rects[k], pdf[n].blocks[b].bbox)
                   /\ \A k \in 1..Len(render.dst_doc[n].texts) :
                         ~Inside(render.dst_doc[n].texts[k].x, render.dst_doc[n].texts[k].y,
                                 pdf[n].blocks[b].bbox)

\* `regenerate` of d1 has written the output: the paragraph next to the
\* formula block of page 0 was translated by a request of an earlier
\* invocation and is drawn.
C13_Witness ==
    /\ args.command = "regenerate" /\ args.input_pdf = "d1"
    /\ pc = "exited" /\ out.output_written
    /\ \E b \in 1..Len(pdf[1].blocks) : FormulaHeuristic(pdf[1].blocks[b].text)
    /\ CacheHas(translation_cache, "d1", get_text_md5(T1))
    /\ translation_cache["d1"][get_text_md5(T1)] = <<"x">>
    /\ render.dst_doc[1].rects # <<>>
    /\ render.dst_doc[1].texts # <<>>
    /\ render.dst_doc[1].texts[1].text = <<"x">>

\* C18: in a `regenerate` with --debug that uses the text-based renderer,
\* every page of the output outside the page range is a verbatim copy,
\* every page inside it is a new page with the background image, and the
\* written output has one page per source page.
C18_DebugRangeCopiesOtherPages ==
    (args.command = "regenerate" /\ args.debug /\ out.renderer = "clean") =>
       /\ \A n \in 1..Len(render.dst_doc) :
             IF n - 1 < args.start_page
                \/ (args.end_page # NoEndPage /\ n - 1 > args.end_page)
             THEN render.dst_doc[n] = CopiedPage
             ELSE ~render.dst_doc[n].copied /\ render.dst_doc[n].images # <<>>
       /\ out.output_written => Len(render.dst_doc) = Len(pdf)

\* C19: when an invocation that called a renderer has ended, no
\* temp_page_<n>.jpg of it is on disk and neither temp_doc nor mask_doc is
\* open, whether the renderer returned or raised.
C19_TemporariesAreReleased ==
    (pc = "exited" /\ out.renderer # "none") =>
       render.temp_files = {} /\ render.open_docs = {}

\* the translation the cache holds for a text of the document at hand, or
\* the text itself
CachedOrOriginal(text) ==
    IF /\ args.input_pdf \in DOMAIN translation_cache
       /\ get_text_md5(text) \in DOMAIN translation_cache[args.input_pdf]
    THEN translation_cache[args.input_pdf][get_text_md5(text)]
    ELSE text

\* every text line on a page of the output is a line of the wrapped
\* CachedOrOriginal text of a stored paragraph of that page, at that
\* paragraph's left margin
OverlayIsCachedOrOriginal ==
    \A n \in 1..Len(render.dst_doc) : \A k \in 1..Len(render.dst_doc[n].texts) :
       LET t == render.dst_doc[n].texts[k]
           paragraphs == ParagraphsOf(paragraphs_by_page, n - 1)
       IN \E j \in 1..Len(paragraphs) :
             LET lines == WrapLines(Split(CachedOrOriginal(paragraphs[j][1])), 1, <<>>,
                                    t.fontsize, paragraphs[j][2])
             IN /\ t.x = Hundredths(paragraphs[j][2][1]) + 200
                /\ \E m \in 1..Len(lines) : lines[m] = t.text

PageKinds ==
    { << >>,
      << <<T2, <<PyInt(10), PyInt(0), PyInt(110), PyInt(40)>> >>,
         <<T1, <<PyFloat(0, <<5>>), PyFloat(100, <<0, 5>>),
                 PyFloat(300, <<2, 5>>), PyFloat(120, <<0>>)>> >> >> }

InitStore ==
    /\ cache_file = NoFile
    /\ paragraphs_files = [d \in Docs |-> NoParagraphsFile]
    /\ pc = "extracting"
    /\ runs = 1
    /\ args = [NoArgs EXCEPT !.command = "translate", !.input_pdf = "d1"]
    /\ translation_cache = EmptyCache
    /\ is_image_pdf = FALSE
    /\ paragraphs_by_page = <<>>
    /\ pos = <<1, 1>>
    /\ call = NoCall
    /\ hist = <<>>
    /\ out = Running
    /\ saved = [d \in Docs |-> <<>>]
    /\ pdf = <<>>
    /\ render = NoRender

\* extraction handles one more page: paragraphs_by_page[page_num] = paragraphs
\* in the page loop of extract_paragraphs and of extract_text_with_ocr
StoreExtractPage(paragraphs) ==
    /\ pc = "extracting"
    /\ Len(paragraphs_by_page) < MaxStorePages
    /\ paragraphs_by_page' =
          Append(paragraphs_by_page, <<Len(paragraphs_by_page), [list |-> paragraphs]>>)
    /\ UNCHANGED <<cache_file, paragraphs_files, pc, runs, args, translation_cache,
                   is_image_pdf, pos, call, hist, out, saved, pdf, render>>

\* main lines 69-77 of the `translate` command
StoreSave ==
    /\ pc = "extracting"
    /\ paragraphs_files' =
          [paragraphs_files EXCEPT ![args.input_pdf] =
              [exists |-> TRUE, json |-> SaveParagraphs(paragraphs_by_page)]]
    /\ saved' = [saved EXCEPT ![args.input_pdf] = paragraphs_by_page]
    /\ paragraphs_by_page' = <<>>
    /\ pc' = "stored"
    /\ UNCHANGED <<cache_file, runs, args, translation_cache, is_image_pdf,
                   pos, call, hist, out, pdf, render>>

\* main lines 102-116 of the `regenerate` command, in a later invocation
StoreLoad ==
    /\ pc = "stored"
    /\ paragraphs_files[args.input_pdf].exists
    /\ runs' = runs + 1
    /\ args' = [args EXCEPT !.command = "regenerate"]
    /\ paragraphs_by_page' = LoadParagraphs(paragraphs_files[args.input_pdf].json)
    /\ pc' = "loaded"
    /\ UNCHANGED <<cache_file, paragraphs_files, translation_cache, is_image_pdf,
                   pos, call, hist, out, saved, pdf, render>>

NextStore ==
    \/ \E paragraphs \in PageKinds : StoreExtractPage(paragraphs)
    \/ StoreSave
    \/ StoreLoad

SpecStore == InitStore /\ [][NextStore]_vars

\* C8: the paragraphs `regenerate` loads are the paragraphs `translate`
\* saved: the same page indices in the same order (pages without
\* paragraphs included) and per page the same paragraphs in the same
\* order, with equal text and equal bbox numbers.
C8_StoreRoundTrip ==
    pc \in {"loaded", "render"} => paragraphs_by_page = saved[args.input_pdf]

\* a document of more than ten pages, the last of them with paragraphs and
\* one without
C8_Witness ==
    /\ pc = "loaded"
    /\ Len(paragraphs_by_page) = 11
    /\ paragraphs_by_page[11][1] = 10
    /\ Len(paragraphs_by_page[11][2].list) = 2
    /\ paragraphs_by_page[3][2].list = <<>>

(***************************************************************************)
(* The text-based renderer on its own: `regenerate` of a one-page text     *)
(* document whose paragraph has a cached translation of up to MaxWords     *)
(* words, in a box of every width and height of a grid.                    *)
(***************************************************************************)
MaxWords == 4
MaxBoxSteps == 6

\* the float of a number of hundredths (a multiple of a half point)
Coordinate(h) == PyFloat(h \div 100, <<(h % 100) \div 10>>)

\* boxes at (72.0, 90.5), widths in steps of 12 points and heights in steps
\* of 7.5 points
RenderBoxes ==
    { << Coordinate(7200), Coordinate(9050),
         Coordinate(7200 + 1200 * w), Coordinate(9050 + 750 * h) >> :
      w \in 1..MaxBoxSteps, h \in 1..MaxBoxSteps }

\* the translations: words of two and of five letters, joined by single
\* spaces; the empty one is what a response of white space leaves
RenderTranslations ==
    { Join(ws) : ws \in UNION { [1..n -> {<<"x", "x">>, <<"y", "y", "y", "y", "y">>}] :
                                n \in 0..MaxWords } }

\* the state in which main calls the renderer (main lines 12-58, 102-116):
\* the cache loaded, the document classified as text-based, the paragraphs
\* loaded from the store
InitRender ==
    \E bbox \in RenderBoxes, translation \in RenderTranslations :
       LET by_page == << <<0, [list |-> << <<T1, bbox>> >>]>> >>
           cache == CachePut(EmptyCache, "d1", get_text_md5(T1), translation)
       IN /\ cache_file = CompleteFile(cache)
          /\ paragraphs_files =
                [d \in Docs |-> IF d = "d1"
                                THEN [exists |-> TRUE, json |-> SaveParagraphs(by_page)]
                                ELSE NoParagraphsFile]
          /\ pc = "render"
          /\ runs = 1
          /\ args = [NoArgs EXCEPT !.command = "regenerate", !.input_pdf = "d1"]
          /\ translation_cache = cache
          /\ pdf = << Page(<< TextBlock(T1, bbox) >>, 0, <<>>) >>
          /\ is_image_pdf = is_image_based_pdf(pdf).ret
          /\ paragraphs_by_page = LoadParagraphs(SaveParagraphs(by_page))
          /\ pos = <<1, 1>>
          /\ call = NoCall
          /\ hist = <<>>
          /\ out = Running
          /\ saved = [d \in Docs |-> IF d = "d1" THEN by_page ELSE <<>>]
          /\ render = NoRender

NextRender ==
    \/ RenderClean
    \/ RenderPage
    \/ BeginFragment
    \/ \E raises \in BOOLEAN : FitTry(raises)
    \/ Commit
    \/ EndPage
    \/ RenderSave

SpecRender == InitRender /\ [][NextRender]_vars

\* the fit search of a fragment, finished or at hand: what was tried, what
\* was committed
Searches ==
    {[translated_text |-> render.done[i].translated_text, bbox |-> render.done[i].bbox,
      tried |-> render.done[i].tried, raised |-> render.done[i].raised,
      best_font_size |-> render.done[i].best_font_size] : i \in 1..Len(render.done)}
    \cup (IF pc \in {"fit", "commit"}
          THEN {[translated_text |-> render.translated_text,
                 bbox |-> ParagraphsOf(paragraphs_by_page, render.page_idx)[render.i][2],
                 tried |-> render.tried, raised |-> render.raised,
                 best_font_size |-> render.best_font_size]}
          ELSE {})

\* C14: the sizes are tried in the order 11, 10, 9, 8, 7, 6; the search
\* stops at the first size whose test fits and commits it, so every larger
\* size was tried and did not fit; when no insertion raised, the committed
\* size is the largest candidate the text fits at, and the lines put on the
\* page are set in it.
C14_LargestFittingSize ==
    /\ \A s \in Searches :
          /\ Len(s.tried) <= 6
          /\ \A k \in 1..Len(s.tried) : s.tried[k].font_size = 12 - k
          /\ \A k \in 1..(Len(s.tried) - 1) : ~s.tried[k].fits
          /\ s.best_font_size # 0 =>
                /\ s.tried[Len(s.tried)].fits
                /\ s.tried[Len(s.tried)].font_size = s.best_font_size
                /\ FitTest(s.translated_text, s.bbox, s.best_font_size, FALSE)
                /\ ~s.raised =>
                      \A size \in 6..11 :
                         size > s.best_font_size =>
                            ~FitTest(s.translated_text, s.bbox, size, FALSE)
    /\ \A i \in 1..Len(render.done) :
          \A n \in 1..Len(render.dst_doc) : \A k \in 1..Len(render.dst_doc[n].texts) :
             (render.done[i].page_idx = n - 1 /\ render.done[i].best_font_size # 0
              /\ render.dst_doc[n].texts[k].x = Hundredths(render.done[i].bbox[1]) + 200) =>
                render.dst_doc[n].texts[k].fontsize = render.done[i].best_font_size

\* a translation of four words was committed at size 8 after 11, 10 and 9
\* did not fit and no insertion raised; the output is written.
C14_Witness ==
    /\ pc = "exited" /\ out.output_written
    /\ Len(render.done) = 1
    /\ render.done[1].best_font_size = 8
    /\ ~render.done[1].raised
    /\ Len(render.done[1].tried) = 4
    /\ Len(Split(render.done[1].translated_text)) = 4
    /\ Len(render.dst_doc[1].texts) > 1
    /\ \A k \in 1..Len(render.dst_doc[1].texts) : render.dst_doc[1].texts[k].fontsize = 8

\* C15: when no insertion raises, the fit test is monotone in the font size:
\* the results the search recorded are those of the wrapping computation,
\* and a text that fits its box at one candidate size fits it at every
\* smaller candidate size.
C15_FitIsMonotone ==
    \A s \in Searches :
       /\ ~s.raised =>
             \A k \in 1..Len(s.tried) :
                s.tried[k].fits =
                   FitTest(s.translated_text, s.bbox, s.tried[k].font_size, FALSE)
       /\ \A size \in 6..11, smaller \in 6..11 :
             (smaller < size /\ FitTest(s.translated_text, s.bbox, size, FALSE)) =>
                FitTest(s.translated_text, s.bbox, smaller, FALSE)

\* the search of a translation of at least three words has stopped at size
\* 8 with no insertion raised: the text wraps there, did not fit at 11, 10
\* and 9, and fits at 7 and 6.
C15_Witness ==
    /\ pc = "commit"
    /\ render.best_font_size = 8 /\ ~render.raised
    /\ render.tried = << [font_size |-> 11, fits |-> FALSE],
                         [font_size |-> 10, fits |-> FALSE],
                         [font_size |-> 9, fits |-> FALSE],
                         [font_size |-> 8, fits |-> TRUE] >>
    /\ Len(Split(render.translated_text)) >= 3
    /\ LET bbox == ParagraphsOf(paragraphs_by_page, render.page_idx)[render.i][2] IN
       /\ Len(WrapLines(Split(render.translated_text), 1, <<>>, 8, bbox)) >= 2
       /\ \A smaller \in 6..7 : FitTest(render.translated_text, bbox, smaller, FALSE)

\* C16: a fragment that fits at no candidate size, no insertion having
\* raised, still gets the white rectangle over its box and lines of its
\* translation at size 6, and a warning is printed for it.
C16_NoFitIsRenderedAtSmallestSize ==
    \A i \in 1..Len(render.done) :
       LET f == render.done[i]
           page == render.dst_doc[f.page_idx + 1]
       IN (f.best_font_size = 0 /\ ~f.raised) =>
             /\ \E k \in 1..Len(page.rects) : page.rects[k] = f.bbox
             /\ \E k \in 1..Len(page.texts) :
                   /\ page.texts[k].fontsize = 6
                   /\ page.texts[k].x = Hundredths(f.bbox[1]) + 200
             /\ \E k \in 1..Len(render.log) :
                   /\ render.log[k].msg = "Could not fit text"
                   /\ render.log[k].page_idx = f.page_idx
                   /\ render.log[k].paragraph = f.paragraph

\* C17: an insert_text that raises never ends the renderer with an
\* exception, and a fragment for which an insertion raised gets its
\* translation as an image on its page.
C17_InsertionFailureFallsBack ==
    /\ out.exception # "insert_text"
    /\ \A i \in 1..Len(render.done) :
          LET f == render.done[i]
              page == render.dst_doc[f.page_idx + 1]
          IN f.raised => \E k \in 1..Len(page.images) : page.images[k].of = "fragment"

\* the lines of a committed fragment, the only one of its page, have every
\* word of the translation once and in order, and the k-th of them (k from
\* 0) is at (bbox.x0 + 2, bbox.y0 + size + k * (size + 2)) in the committed
\* size
CommittedLinesInOrder(f, texts) ==
    /\ Split(Join([k \in 1..Len(texts) |-> texts[k].text])) = Split(f.translated_text)
    /\ \A k \in 1..Len(texts) :
          /\ texts[k].fontsize = f.best_font_size
          /\ texts[k].x = Hundredths(f.bbox[1]) + 200
          /\ texts[k].y = Hundredths(f.bbox[2]) + 100 * f.best_font_size
                              + 100 * (k - 1) * (f.best_font_size + 2)

\* C22: for every fragment committed at a fitting size, the lines on the
\* page are those of CommittedLinesInOrder, and the baseline of every line
\* is inside the box vertically: bbox.y0 < y <= bbox.y1.
C22_LinesInsideBox ==
    \A i \in 1..Len(render.done) :
       LET f == render.done[i]
           texts == render.dst_doc[f.page_idx + 1].texts
       IN f.best_font_size # 0 =>
             /\ CommittedLinesInOrder(f, texts)
             /\ \A k \in 1..Len(texts) :
                   /\ Hundredths(f.bbox[2]) < texts[k].y
                   /\ texts[k].y <= Hundredths(f.bbox[4])

(***************************************************************************)
(* The classifier on its own: is_image_based_pdf on documents of every     *)
(* page count up to MaxDocPages.                                           *)
(***************************************************************************)
\* what a page can hold: nothing, images only, text only, or both
BlockCounts ==
    { Blocks(0, 0), Blocks(0, 1), Blocks(1, 0), Blocks(1, 1), Blocks(2, 1),
      Blocks(1, 2) }

InitClassifier ==
    /\ cache_file = NoFile
    /\ paragraphs_files = [d \in Docs |-> NoParagraphsFile]
    /\ pc = "opening"
    /\ runs = 1
    /\ args = [NoArgs EXCEPT !.command = "translate", !.input_pdf = "d1"]
    /\ translation_cache = EmptyCache
    /\ is_image_pdf = FALSE
    /\ paragraphs_by_page = <<>>
    /\ pos = <<1, 1>>
    /\ call = NoCall
    /\ hist = <<>>
    /\ out = Running
    /\ saved = [d \in Docs |-> <<>>]
    /\ pdf = <<>>
    /\ render = NoRender

\* the document at args.input_pdf has one more page
OpenPage(blocks) ==
    /\ pc = "opening"
    /\ Len(pdf) < MaxDocPages
    /\ pdf' = Append(pdf, blocks)
    /\ UNCHANGED <<cache_file, paragraphs_files, pc, runs, args, translation_cache,
                   is_image_pdf, paragraphs_by_page, pos, call, hist, out, saved,
                   render>>

\* main line 56: is_image_pdf = is_image_based_pdf(args.input_pdf)
Classify ==
    /\ pc = "opening"
    /\ LET r == is_image_based_pdf(pdf)
       IN IF r.raised
          THEN /\ out' = Raised(Running, "ZeroDivisionError")
               /\ pc' = "exited"
               /\ UNCHANGED is_image_pdf
          ELSE /\ is_image_pdf' = r.ret
               /\ pc' = "classified"
               /\ UNCHANGED out
    /\ UNCHANGED <<cache_file, paragraphs_files, runs, args, translation_cache,
                   paragraphs_by_page, pos, call, hist, saved, pdf, render>>

NextClassifier ==
    \/ \E blocks \in BlockCounts : OpenPage(blocks)
    \/ Classify

SpecClassifier == InitClassifier /\ [][NextClassifier]_vars

\* the exact sum, as a fraction <<numerator, denominator>>, of
\* text_blocks / (text_blocks + image_blocks) over the first k pages, a page
\* with neither counting 0
RECURSIVE ExactRatioSum(_, _)
ExactRatioSum(pages, k) ==
    IF k = 0 THEN <<0, 1>>
    ELSE LET s == ExactRatioSum(pages, k - 1)
             t == pages[k].text_blocks
             b == pages[k].text_blocks + pages[k].image_blocks
         IN IF b = 0 THEN s ELSE <<s[1] * b + t * s[2], s[2] * b>>

\* the average over the first min(page count, 5) pages is strictly below 3/10
ExactAverageBelowThreshold(pages) ==
    LET n == Min(Len(pages), 5)
        s == ExactRatioSum(pages, n)
    IN 10 * s[1] < 3 * n * s[2]

\* C10: for every document with at least one page, is_image_based_pdf
\* returns image-based exactly when the average over the first
\* min(page_count, 5) pages of text_blocks / (text_blocks + image_blocks)
\* (0 for a page with neither) is strictly below the threshold 0.3; the
\* pages after the fifth do not count.
C10_AverageBelowThreshold ==
    pc = "classified" => (is_image_pdf <=> ExactAverageBelowThreshold(pdf))

\* C11: is_image_based_pdf never divides by zero: on a document with 0
\* pages, and on a document where no sampled page has a text or image
\* block, it returns a classification instead of raising.
C11_ClassifierNeverDividesByZero ==
    out.exception # "ZeroDivisionError"

====
